---- MODULE Spec2Model ----
(***************************************************************************)
(* Batched matrix-vector product of crabml's CPU backend:                  *)
(*   crabml-core/src/backends/cpu/primitives/batch_matmul_vec.rs           *)
(*                                                                         *)
(* Buffers are functions 0..n-1 -> Int (zero-based as the Rust slices).     *)
(* f32 values are modelled as exact integers: rounding is not modelled.    *)
(* Shapes and strides are sequences, so shape()[d] of the source is        *)
(* shape[d+1] here.  usize arithmetic never overflows within the bounds.   *)
(***************************************************************************)
EXTENDS Integers, Sequences, FiniteSets, TLC

\* ---- bounds of the model
MaxSlots == 4        \* b*m of a call is at most MaxSlots
MaxK == 9            \* inner dimension of a call of batch_matmul_vec
MaxKernelK == 19     \* k of a stand-alone kernel run
MaxBase == 1         \* a_base of a stand-alone kernel run
MaxStride == 2       \* a_stride of a stand-alone kernel run
MaxBadDim == 2       \* b, m and k of a call that breaks a precondition

VARIABLES
    target,     \* the build: "fallback", "aarch64" or "avx2" (cfg gating)
    strider1,   \* descriptor of A: [shape, strides]
    strider2,   \* descriptor of B: [shape, strides]
    bufa,       \* a.as_f32_ref()
    bufb,       \* b.as_f32_ref()
    bufc,       \* c.as_f32_mut()
    c0,         \* the content of C when the call was made
    pc,         \* "caller", "entry", "par", "returned", "aborted", "panicked"
                \* ("idle" in a stand-alone kernel run)
    done,       \* the parallel units that have completed
    wcount,     \* number of writes each slot of C has received
    kcalls,     \* number of invocations of dot_product_f32
    derived,    \* the <<i, bi, mi>> each started unit derived
    fault,      \* "none", "div0", "slice", "index", "ub"
    kin,        \* inputs of a stand-alone kernel run
    kst         \* loop state of a stand-alone kernel run

vars == <<target, strider1, strider2, bufa, bufb, bufc, c0, pc, done,
          wcount, kcalls, derived, fault, kin, kst>>

orchVars == <<target, strider1, strider2, bufa, bufb, bufc, c0, pc, done,
              wcount, kcalls, derived, fault>>

Targets == {"fallback", "aarch64", "avx2"}

BufLen(f) == Cardinality(DOMAIN f)

Slice(f, lo, hi) == [j \in 0..(hi - lo - 1) |-> f[lo + j]]

\* ------------------------------------------------------------------------
\* The dot-product kernel, as a loop state advanced one step at a time.
\*   phase   "main" (grouped loop), "rem" (remainder loop), "done"
\*   ki      loop index
\*   lanes   the vector accumulators (sumv0 = lanes 0..3, sumv1 = lanes
\*           4..7 on aarch64; sumv = lanes 0..7 on avx2; unused in fallback)
\*   partial partial_sum of the avx2 variant
\*   sum     sum (fallback, aarch64) or scalar_sum (avx2)
\*   trace   the <<index, "grp" | "rem">> accumulated so far, in order
\*   fault   "none", "panic" (bounds-checked index) or "ub" (raw read)
\* ------------------------------------------------------------------------
KInit ==
    [phase |-> "main", ki |-> 0, lanes |-> [j \in 0..7 |-> 0], partial |-> 0,
     sum |-> 0, result |-> 0, trace |-> <<>>, fault |-> "none"]

Width(variant) == IF variant = "fallback" THEN 4 ELSE 8

KRounded(variant, k) == k - (k % Width(variant))

AIndex(in, ki) == in.a_base + ki * in.a_stride

KFault(st, kind) == [st EXCEPT !.phase = "done", !.fault = kind]

RECURSIVE GroupTrace(_, _, _)
GroupTrace(ki, j, w) ==
    IF j >= w THEN <<>> ELSE <<(<<ki + j, "grp">>)>> \o GroupTrace(ki, j + 1, w)

Prod(in, ki) == in.a[AIndex(in, ki)] * in.b[ki]

GroupInBounds(in, ki, w) ==
    \A j \in 0..(w - 1) :
        /\ AIndex(in, ki + j) < BufLen(in.a)
        /\ ki + j < BufLen(in.b)

\* one iteration of the 4-wide loop of dot_product_f32_fallback
FallbackGroup(in, st) ==
    IF ~GroupInBounds(in, st.ki, 4) THEN KFault(st, "panic")
    ELSE [st EXCEPT
            !.sum = (((st.sum + Prod(in, st.ki)) + Prod(in, st.ki + 1))
                        + Prod(in, st.ki + 2)) + Prod(in, st.ki + 3),
            !.ki = st.ki + 4,
            !.trace = st.trace \o GroupTrace(st.ki, 0, 4)]

\* one iteration of the 8-wide loop of either dot_product_f32_simd
SimdGroup(in, st) ==
    IF ~GroupInBounds(in, st.ki, 8) THEN KFault(st, "ub")
    ELSE [st EXCEPT
            !.lanes = [j \in 0..7 |-> st.lanes[j] + Prod(in, st.ki + j)],
            !.ki = st.ki + 8,
            !.trace = st.trace \o GroupTrace(st.ki, 0, 8)]

KGroup(in, st) ==
    IF in.variant = "fallback" THEN FallbackGroup(in, st) ELSE SimdGroup(in, st)

\* KReduce with the aarch64 sum taken from sumv0 alone
KReduceLowHalf(in, st) ==
    CASE in.variant = "fallback" ->
            [st EXCEPT !.phase = "rem"]
      [] in.variant = "aarch64" ->
            [st EXCEPT !.phase = "rem",
                       !.sum = ((st.lanes[0] + st.lanes[1]) + st.lanes[2]) + st.lanes[3]]
      [] OTHER ->
            [st EXCEPT !.phase = "rem",
                       !.partial = ((((((st.lanes[0] + st.lanes[1]) + st.lanes[2])
                                     + st.lanes[3]) + st.lanes[4]) + st.lanes[5])
                                     + st.lanes[6]) + st.lanes[7],
                       !.sum = 0]

\* what follows the grouped loop: the horizontal reduction of the variant
KReduce(in, st) ==
    CASE in.variant = "fallback" ->
            [st EXCEPT !.phase = "rem"]
      [] in.variant = "aarch64" ->
            [st EXCEPT !.phase = "rem",
                       !.sum = (((st.lanes[0] + st.lanes[1]) + st.lanes[2]) + st.lanes[3])
                             + (((st.lanes[4] + st.lanes[5]) + st.lanes[6]) + st.lanes[7])]
      [] OTHER ->
            [st EXCEPT !.phase = "rem",
                       !.partial = ((((((st.lanes[0] + st.lanes[1]) + st.lanes[2])
                                     + st.lanes[3]) + st.lanes[4]) + st.lanes[5])
                                     + st.lanes[6]) + st.lanes[7],
                       !.sum = 0]

\* one iteration of the remainder loop (the same in the three variants)
KRem(in, st) ==
    IF AIndex(in, st.ki) >= BufLen(in.a) \/ st.ki >= BufLen(in.b)
    THEN KFault(st, "panic")
    ELSE [st EXCEPT !.sum = st.sum + Prod(in, st.ki),
                    !.ki = st.ki + 1,
                    !.trace = Append(st.trace, <<st.ki, "rem">>)]

\* the value the variant returns
KFinish(in, st) ==
    [st EXCEPT !.phase = "done",
               !.result = IF in.variant = "avx2" THEN st.partial + st.sum ELSE st.sum]

\* KStep with a remainder loop that stops one element early
KStepSkipLast(in, st) ==
    CASE st.phase = "main" /\ st.ki < KRounded(in.variant, in.k) -> KGroup(in, st)
      [] st.phase = "main" /\ st.ki >= KRounded(in.variant, in.k) -> KReduce(in, st)
      [] st.phase = "rem" /\ st.ki + 1 < in.k -> KRem(in, st)
      [] st.phase = "rem" /\ st.ki + 1 >= in.k -> KFinish(in, st)
      [] OTHER -> st

\* the loop of the variant, one step: its state after the next iteration
KStep(in, st) ==
    CASE st.phase = "main" /\ st.ki < KRounded(in.variant, in.k) -> KGroup(in, st)
      [] st.phase = "main" /\ st.ki >= KRounded(in.variant, in.k) -> KReduce(in, st)
      [] st.phase = "rem" /\ st.ki < in.k -> KRem(in, st)
      [] st.phase = "rem" /\ st.ki >= in.k -> KFinish(in, st)
      [] OTHER -> st

RECURSIVE KRun(_, _)
\* (the successor state is drawn from a singleton so that it is computed once)
KRun(in, st) ==
    IF st.phase = "done" THEN st
    ELSE CHOOSE r \in {KRun(in, nx) : nx \in {KStep(in, st)}} : TRUE

KernelInput(variant, a, a_base, a_stride, k, b) ==
    [variant |-> variant, a |-> a, a_base |-> a_base, a_stride |-> a_stride,
     k |-> k, b |-> b]

\* dot_product_f32: the variant is fixed by the build target
DotProductF32(tgt, a, a_base, a_stride, k, b) ==
    CHOOSE r \in {KRun(in, KInit) :
                    in \in {KernelInput(tgt, a, a_base, a_stride, k, b)}} : TRUE

\* ------------------------------------------------------------------------
\* TensorStrider (crate::tensor, not part of the file): the subset used.
\* ------------------------------------------------------------------------
RECURSIVE RowMajor(_, _)
\* the stride of dimension d in the row-major layout of shape
RowMajor(shape, d) ==
    IF d >= Len(shape) THEN 1 ELSE shape[d + 1] * RowMajor(shape, d + 1)

IsContiguous(s) ==
    /\ Len(s.strides) = Len(s.shape)
    /\ \A d \in 1..Len(s.shape) : s.strides[d] = RowMajor(s.shape, d)

\* ------------------------------------------------------------------------
\* batch_matmul_vec
\* ------------------------------------------------------------------------
\* Asserts without the contiguity check of B
AssertsNoContiguity(s1, s2) ==
    /\ Len(s1.shape) = 3
    /\ Len(s2.shape) = 2
    /\ s1.shape[1] = s2.shape[1]
    /\ s1.shape[3] = s2.shape[2]

\* the five assert! of lines 16-20, in order (/\ is evaluated left to right)
Asserts(s1, s2) ==
    /\ Len(s1.shape) = 3
    /\ Len(s2.shape) = 2
    /\ s1.shape[1] = s2.shape[1]
    /\ s1.shape[3] = s2.shape[2]
    /\ IsContiguous(s2)

\* Mi taken as the quotient instead of the remainder
MiQuotient(i, m) == i \div m

Mi(i, m) == i % m

Bi(i, m) == (i - Mi(i, m)) \div m

\* ABase with the two strides exchanged
ABaseSwapped(bi, mi, bi_stride, mi_stride) == bi * mi_stride + mi * bi_stride

\* the a_base argument handed to dot_product_f32
ABase(bi, mi, bi_stride, mi_stride) == bi * bi_stride + mi * mi_stride

\* the values a raw out-of-bounds read can make a unit store
UBValues == {0, -7}

\* TaskWrite that adds to the slot instead of overwriting it
TaskWriteAccumulate(i, v) ==
    /\ bufc' = [bufc EXCEPT ![i] = bufc[i] + v]
    /\ wcount' = [wcount EXCEPT ![i] = wcount[i] + 1]
    /\ done' = done \cup {i}
    /\ pc' = "par"

\* TaskWrite that also stores the value in the first slot
TaskWriteFirstSlot(i, v) ==
    /\ bufc' = [bufc EXCEPT ![i] = v, ![0] = v]
    /\ wcount' = [wcount EXCEPT ![i] = wcount[i] + 1]
    /\ done' = done \cup {i}
    /\ pc' = "par"

\* the unit of flat index i stores v in its own slot
TaskWrite(i, v) ==
    /\ bufc' = [bufc EXCEPT ![i] = v]
    /\ wcount' = [wcount EXCEPT ![i] = wcount[i] + 1]
    /\ done' = done \cup {i}
    /\ pc' = "par"

\* the unit of flat index i panics (or the process dies): nothing is stored
TaskPanic(i, kind) ==
    /\ fault' = kind
    /\ pc' = "panicked"
    /\ UNCHANGED <<bufc, wcount, done>>

Call ==
    /\ pc = "entry"
    /\ pc' = IF Asserts(strider1, strider2) THEN "par" ELSE "aborted"
    /\ UNCHANGED <<target, strider1, strider2, bufa, bufb, bufc, c0, done,
                   wcount, kcalls, derived, fault, kin, kst>>

\* the closure of for_each, run for the element of flat index i
Task(i) ==
    /\ pc = "par"
    /\ i \in (DOMAIN bufc) \ done
    /\ LET m == strider1.shape[2]
           k == strider1.shape[3]
           bi_stride == strider1.strides[1]
           mi_stride == strider1.strides[2]
           ki_stride == strider1.strides[3]
       IN  IF m = 0
           THEN /\ TaskPanic(i, "div0")
                /\ UNCHANGED <<kcalls, derived>>
           ELSE LET mi == Mi(i, m)
                    bi == Bi(i, m)
                IN  /\ derived' = derived \cup {<<i, bi, mi>>}
                    /\ IF (bi + 1) * k > BufLen(bufb)
                       THEN /\ TaskPanic(i, "slice")
                            /\ UNCHANGED kcalls
                       ELSE \E r \in {DotProductF32(target, bufa,
                                         ABase(bi, mi, bi_stride, mi_stride),
                                         ki_stride, k,
                                         Slice(bufb, bi * k, (bi + 1) * k))} :
                                /\ kcalls' = kcalls + 1
                                /\ CASE r.fault = "none" ->
                                            /\ TaskWrite(i, r.result)
                                            /\ UNCHANGED fault
                                     [] r.fault = "panic" ->
                                            TaskPanic(i, "index")
                                     [] OTHER ->
                                            \/ TaskPanic(i, "ub")
                                            \/ \E v \in UBValues :
                                                  /\ TaskWrite(i, v)
                                                  /\ fault' = "ub"
    /\ UNCHANGED <<target, strider1, strider2, bufa, bufb, c0, kin, kst>>

\* JoinReady that does not wait for the units
JoinReadyNoWait == TRUE

\* for_each has joined every unit
JoinReady == done = DOMAIN bufc

\* the join at the end of for_each, then Ok(())
Join ==
    /\ pc = "par"
    /\ JoinReady
    /\ pc' = "returned"
    /\ UNCHANGED <<target, strider1, strider2, bufa, bufb, bufc, c0, done,
                   wcount, kcalls, derived, fault, kin, kst>>

\* ------------------------------------------------------------------------
\* The calls the model makes
\* ------------------------------------------------------------------------
FillA(n) == [j \in 0..(n - 1) |-> j + 1]

FillB(n) == [j \in 0..(n - 1) |-> ((3 * j + 1) % 5) - 2]

FillC(n, s) == [j \in 0..(n - 1) |-> IF s = 0 THEN 0 ELSE 100 + j]

CFills == {0, 1}

\* p lists the dimensions of A from the outermost to the innermost in memory
Perms3 == {<<1, 2, 3>>, <<1, 3, 2>>, <<2, 1, 3>>, <<2, 3, 1>>, <<3, 1, 2>>, <<3, 2, 1>>}

LayoutStrides(shape, p) ==
    [d \in 1..3 |-> IF d = p[3] THEN 1
                    ELSE IF d = p[2] THEN shape[p[3]]
                    ELSE shape[p[3]] * shape[p[2]]]

\* strides of A: every permuted layout, a batch-broadcast view, and a view
\* whose inner stride runs past the buffer (a descriptor that does not
\* describe its buffer)
StridesOf(shape) ==
    {LayoutStrides(shape, p) : p \in Perms3}
        \cup {<<0, shape[3], 1>>, <<shape[2] * shape[3], shape[3], 2>>}

Dims == {<<b, m, k>> \in (1..MaxSlots) \X (0..MaxSlots) \X (0..MaxK) :
            b * m <= MaxSlots}

Descriptor(shape, strides) == [shape |-> shape, strides |-> strides]

\* calls that satisfy the five preconditions, for every layout of A
GoodCalls ==
    UNION {{[s1 |-> Descriptor(d, st),
             s2 |-> Descriptor(<<d[1], d[3]>>, <<d[3], 1>>),
             lena |-> d[1] * d[2] * d[3], lenb |-> d[1] * d[3],
             lenc |-> d[1] * d[2]] : st \in StridesOf(d)} : d \in Dims}

BadDims == (1..MaxBadDim) \X (1..MaxBadDim) \X (1..MaxBadDim)

\* calls that break one of the asserted preconditions
BadCallsOf(d) ==
    LET b == d[1]
        m == d[2]
        k == d[3]
        a3 == Descriptor(d, <<m * k, k, 1>>)
        b2 == Descriptor(<<b, k>>, <<k, 1>>)
        call(s1, s2, la, lb) ==
            [s1 |-> s1, s2 |-> s2, lena |-> la, lenb |-> lb, lenc |-> b * m]
    IN  { call(Descriptor(<<b * m, k>>, <<k, 1>>), b2, b * m * k, b * k),
          call(Descriptor(<<1, b, m, k>>, <<b * m * k, m * k, k, 1>>), b2,
               b * m * k, b * k),
          call(a3, Descriptor(<<b * k>>, <<1>>), b * m * k, b * k),
          call(a3, Descriptor(<<b, k, 1>>, <<k, 1, 1>>), b * m * k, b * k),
          call(a3, Descriptor(<<b + 1, k>>, <<k, 1>>), b * m * k, (b + 1) * k),
          call(a3, Descriptor(<<b, k + 1>>, <<k + 1, 1>>), b * m * k, b * (k + 1)),
          call(a3, Descriptor(<<b, k>>, <<1, b>>), b * m * k, b * k),
          call(a3, Descriptor(<<b, k>>, <<k + 1, 1>>), b * m * k, b * (k + 1)) }

BadCalls == UNION {BadCallsOf(d) : d \in BadDims}

WrongLenDims == (1..MaxBadDim) \X (0..MaxBadDim) \X (0..MaxBadDim)

\* calls whose output buffer is one element shorter or longer than b*m
WrongLenCalls ==
    UNION {{[s1 |-> Descriptor(d, <<d[2] * d[3], d[3], 1>>),
             s2 |-> Descriptor(<<d[1], d[3]>>, <<d[3], 1>>),
             lena |-> d[1] * d[2] * d[3], lenb |-> d[1] * d[3],
             lenc |-> d[1] * d[2] + e] :
               e \in {x \in {-1, 1} : d[1] * d[2] + x >= 0}} : d \in WrongLenDims}

Calls == GoodCalls \cup BadCalls \cup WrongLenCalls

KIdle == [variant |-> "fallback", a |-> <<>>, a_base |-> 0, a_stride |-> 0,
          k |-> 0, b |-> <<>>]

Init ==
    /\ target \in Targets
    /\ strider1 = Descriptor(<<>>, <<>>)
    /\ strider2 = Descriptor(<<>>, <<>>)
    /\ bufa = <<>>
    /\ bufb = <<>>
    /\ bufc = <<>>
    /\ c0 = <<>>
    /\ wcount = <<>>
    /\ pc = "caller"
    /\ done = {}
    /\ kcalls = 0
    /\ derived = {}
    /\ fault = "none"
    /\ kin = KIdle
    /\ kst = KInit

\* the caller allocates the buffers and the descriptors of one call
Setup ==
    /\ pc = "caller"
    /\ \E call \in Calls, s \in CFills :
          /\ strider1' = call.s1
          /\ strider2' = call.s2
          /\ bufa' = FillA(call.lena)
          /\ bufb' = FillB(call.lenb)
          /\ bufc' = FillC(call.lenc, s)
          /\ c0' = FillC(call.lenc, s)
          /\ wcount' = [j \in 0..(call.lenc - 1) |-> 0]
    /\ pc' = "entry"
    /\ UNCHANGED <<target, done, kcalls, derived, fault, kin, kst>>

Next ==
    \/ Setup
    \/ Call
    \/ \E i \in DOMAIN bufc : Task(i)
    \/ Join

Spec == Init /\ [][Next]_vars

\* rayon runs every unit handed to for_each and then joins
FairSpec ==
    /\ Spec
    /\ WF_vars(\E i \in DOMAIN bufc : Task(i))
    /\ WF_vars(Join)

\* ------------------------------------------------------------------------
\* Stand-alone runs of the kernel: one action per step of its loops
\* ------------------------------------------------------------------------
\* the least length of a that holds every index of the run
ANeeded(a_base, a_stride, k) == IF k = 0 THEN a_base ELSE a_base + (k - 1) * a_stride + 1

KernelRuns ==
    {[a_base |-> ab, a_stride |-> as, k |-> k, short |-> sh] :
        ab \in 0..MaxBase, as \in 0..MaxStride, k \in 0..MaxKernelK, sh \in {0, 1}}

InitKernel ==
    /\ target \in Targets
    /\ \E run \in KernelRuns :
          LET n == ANeeded(run.a_base, run.a_stride, run.k) - run.short
          IN  /\ n >= 0
              /\ kin = KernelInput(target, FillA(n), run.a_base, run.a_stride,
                                   run.k, FillB(run.k))
    /\ kst = KInit
    /\ strider1 = Descriptor(<<>>, <<>>)
    /\ strider2 = Descriptor(<<>>, <<>>)
    /\ bufa = <<>>
    /\ bufb = <<>>
    /\ bufc = <<>>
    /\ c0 = <<>>
    /\ wcount = <<>>
    /\ pc = "idle"
    /\ done = {}
    /\ kcalls = 0
    /\ derived = {}
    /\ fault = "none"

KernelGroup ==
    /\ pc = "idle"
    /\ kst.phase = "main"
    /\ kst.ki < KRounded(kin.variant, kin.k)
    /\ kst' = KStep(kin, kst)
    /\ UNCHANGED <<orchVars, kin>>

KernelReduce ==
    /\ pc = "idle"
    /\ kst.phase = "main"
    /\ kst.ki >= KRounded(kin.variant, kin.k)
    /\ kst' = KStep(kin, kst)
    /\ UNCHANGED <<orchVars, kin>>

KernelRem ==
    /\ pc = "idle"
    /\ kst.phase = "rem"
    /\ kst.ki < kin.k
    /\ kst' = KStep(kin, kst)
    /\ UNCHANGED <<orchVars, kin>>

KernelFinish ==
    /\ pc = "idle"
    /\ kst.phase = "rem"
    /\ kst.ki >= kin.k
    /\ kst' = KStep(kin, kst)
    /\ UNCHANGED <<orchVars, kin>>

NextKernel ==
    \/ KernelGroup
    \/ KernelReduce
    \/ KernelRem
    \/ KernelFinish

SpecKernel == InitKernel /\ [][NextKernel]_vars

\* ------------------------------------------------------------------------
\* Properties
\* ------------------------------------------------------------------------
ShapeB == strider1.shape[1]
ShapeM == strider1.shape[2]
ShapeK == strider1.shape[3]

\* the preconditions 1-4 of the call, stated on the descriptors
WellShaped ==
    /\ Len(strider1.shape) = 3
    /\ Len(strider2.shape) = 2
    /\ strider1.shape[1] = strider2.shape[1]
    /\ strider1.shape[3] = strider2.shape[2]
    /\ strider2.strides = <<strider2.shape[2], 1>>

\* the flat index into A of the logical element (bi, mi, ki)
AFlat(bi, mi, ki) ==
    bi * strider1.strides[1] + mi * strider1.strides[2] + ki * strider1.strides[3]

\* the descriptors describe the buffers: every element they name exists
Accurate ==
    /\ \A bi \in 0..(ShapeB - 1), mi \in 0..(ShapeM - 1), ki \in 0..(ShapeK - 1) :
          AFlat(bi, mi, ki) < BufLen(bufa)
    /\ BufLen(bufb) = ShapeB * ShapeK

\* the five preconditions hold and the descriptors describe the buffers
ValidCall == WellShaped /\ BufLen(bufc) = ShapeB * ShapeM /\ Accurate

RECURSIVE RefSum(_, _, _)
\* the innermost loop of the triple-nested reference, from ki upwards
RefSum(bi, mi, ki) ==
    IF ki >= ShapeK THEN 0
    ELSE bufa[AFlat(bi, mi, ki)] * bufb[bi * ShapeK + ki] + RefSum(bi, mi, ki + 1)

\* C1: when a call that satisfies the five preconditions returns, every slot
\* C[bi*m + mi] holds the sum over ki of A[bi*s0 + mi*s1 + ki*s2] * B[bi*k + ki],
\* whatever the strides of A
C1_OutputIsReference ==
    (pc = "returned" /\ ValidCall) =>
        \A bi \in 0..(ShapeB - 1), mi \in 0..(ShapeM - 1) :
            bufc[bi * ShapeM + mi] = RefSum(bi, mi, 0)

C1_Witness ==
    /\ pc = "returned"
    /\ ValidCall
    /\ target = "avx2"
    /\ strider1.shape = <<2, 2, 9>>
    /\ strider1.strides = <<1, 2, 4>>
    /\ \A i \in DOMAIN bufc : bufc[i] # 0 /\ bufc[i] # c0[i]

\* C2: a call whose output buffer is not of length b*m is halted before any
\* kernel invocation and before any slot is written
C2_LengthChecked ==
    (Len(strider1.shape) = 3 /\ BufLen(bufc) # ShapeB * ShapeM) =>
        (kcalls = 0 /\ bufc = c0 /\ pc # "returned")

\* one of the asserted preconditions is broken
Malformed ==
    \/ Len(strider1.shape) # 3
    \/ Len(strider2.shape) # 2
    \/ strider1.shape[1] # strider2.shape[1]
    \/ strider1.shape[3] # strider2.shape[2]
    \/ strider2.strides # <<strider2.shape[2], 1>>

\* C3: a call with malformed shapes or a non-contiguous B never leaves the
\* entry and aborted states, C keeps its content and no kernel is invoked
C3_AbortBeforeWrite ==
    (pc # "caller" /\ Malformed) =>
        /\ pc \in {"entry", "aborted"}
        /\ bufc = c0
        /\ kcalls = 0
        /\ done = {}
        /\ \A i \in DOMAIN wcount : wcount[i] = 0

C3_Witness ==
    /\ pc = "aborted"
    /\ strider1.shape = <<2, 2, 2>>
    /\ strider2.shape = <<2, 2>>
    /\ strider2.strides = <<1, 2>>

\* C4: in a valid call every unit i derives a pair (bi, mi) in [0,b) x [0,m)
\* with bi*m + mi = i, no two units derive the same pair, no slot is written
\* twice, and at the return every pair has been derived and every slot has
\* been written exactly once
C4_DisjointExhaustive ==
    ValidCall =>
        /\ \A x \in derived :
              /\ x[2] \in 0..(ShapeB - 1)
              /\ x[3] \in 0..(ShapeM - 1)
              /\ x[2] * ShapeM + x[3] = x[1]
        /\ \A x, y \in derived : (x[2] = y[2] /\ x[3] = y[3]) => x[1] = y[1]
        /\ \A i \in DOMAIN wcount : wcount[i] <= 1
        /\ pc = "returned" =>
              /\ {<<x[2], x[3]>> : x \in derived}
                    = (0..(ShapeB - 1)) \X (0..(ShapeM - 1))
              /\ \A i \in DOMAIN wcount : wcount[i] = 1

C4_Witness ==
    /\ pc = "returned"
    /\ ValidCall
    /\ ShapeB = 2
    /\ ShapeM = 2
    /\ Cardinality(derived) = 4

\* C5: in a call that passes the assertions and whose descriptors describe
\* A and B, every unit gets a batch index below b and no access is out of
\* bounds
C5_NoOutOfBounds ==
    (WellShaped /\ Accurate) =>
        /\ fault \notin {"slice", "index", "ub"}
        /\ \A x \in derived : x[2] < ShapeB

AllWritten == \A i \in DOMAIN bufc : i \in done /\ wcount[i] >= 1

\* C6: the call returns only after every unit has completed, and a valid
\* call whose units are scheduled fairly does return
C6_Synchronous ==
    /\ [](pc = "returned" => AllWritten)
    /\ ((pc = "par" /\ ValidCall) ~> (pc = "returned"))

C6_Witness ==
    /\ pc = "returned"
    /\ ValidCall
    /\ BufLen(bufc) = 4
    /\ ShapeK = 9

\* C7: in a valid call the content of C is a function of the inputs and of
\* the set of completed units alone, whatever the order they ran in: a
\* completed slot holds its reference value and a pending one its old value,
\* so the final C is the same for every interleaving and every initial C
C7_Deterministic ==
    ValidCall =>
        /\ \A i \in DOMAIN bufc :
              bufc[i] = IF i \in done
                        THEN RefSum(i \div ShapeM, i % ShapeM, 0)
                        ELSE c0[i]
        /\ pc = "returned" => done = DOMAIN bufc

C7_Witness ==
    /\ pc = "par"
    /\ ValidCall
    /\ done = {1, 2}
    /\ BufLen(bufc) = 4
    /\ c0[0] = 100
    /\ target = "aarch64"

\* the values the unit of flat index i can store: the kernel's value on the
\* row of A and the slice of B of the unit (C is no argument of it)
UnitValues(i) ==
    LET mi == i % ShapeM
        bi == (i - mi) \div ShapeM
        r == DotProductF32(target, bufa,
                 bi * strider1.strides[1] + mi * strider1.strides[2],
                 strider1.strides[3], ShapeK,
                 Slice(bufb, bi * ShapeK, (bi + 1) * ShapeK))
    IN  IF r.fault = "none" THEN {r.result} ELSE UBValues

\* C8: A and B never change; a step changes at most the slot of the unit
\* that completes in it, to a value that does not depend on C; at the return
\* every slot has been overwritten
C8_Frame ==
    /\ [][pc # "caller" =>
          /\ bufa' = bufa
          /\ bufb' = bufb
          /\ DOMAIN bufc' = DOMAIN bufc
          /\ \A j \in DOMAIN bufc :
                \/ j \in done' \ done /\ bufc'[j] \in UnitValues(j)
                \/ j \notin done' \ done /\ bufc'[j] = bufc[j]]_vars
    /\ [](pc = "returned" => \A i \in DOMAIN bufc : wcount[i] >= 1)

C8_Witness ==
    /\ pc = "returned"
    /\ BufLen(bufc) = 3
    /\ c0[0] = 100
    /\ \A i \in DOMAIN bufc : bufc[i] # c0[i]

\* ---- the kernel alone
RECURSIVE RefDot(_, _)
\* sum over the indices ki..k-1 of A[offset + ki*stride] * B[ki]
RefDot(in, ki) ==
    IF ki >= in.k THEN 0
    ELSE in.a[in.a_base + ki * in.a_stride] * in.b[ki] + RefDot(in, ki + 1)

KernelDone == pc = "idle" /\ kst.phase = "done" /\ kst.fault = "none"

\* C9: a finished run has accumulated every index of [0,k) exactly once:
\* the indices below k - k mod width in groups, then the others one by one
\* in ascending order
C9_EachIndexOnce ==
    KernelDone =>
        LET w == IF kin.variant = "fallback" THEN 4 ELSE 8
            kr == kin.k - (kin.k % w)
            tr == kst.trace
        IN  /\ Len(tr) = kin.k
            /\ \A ki \in 0..(kin.k - 1) :
                  Cardinality({p \in 1..Len(tr) : tr[p][1] = ki}) = 1
            /\ \A p \in 1..Len(tr) : (tr[p][2] = "grp") <=> (tr[p][1] < kr)
            /\ \A p, q \in 1..Len(tr) :
                  (p < q /\ tr[p][2] = "rem") =>
                      (tr[q][2] = "rem" /\ tr[p][1] < tr[q][1])

C9_Witness ==
    /\ KernelDone
    /\ kin.variant = "avx2"
    /\ kin.k = 19
    /\ kin.a_stride = 2
    /\ Len(kst.trace) = 19

\* C10: on in-bounds inputs the three variants return the same value, the
\* sum over ki in [0,k) of A[offset + ki*stride] * B[ki]
C10_VariantsAgree ==
    KernelDone =>
        /\ kst.result = RefDot(kin, 0)
        /\ \A v \in Targets :
              LET r == DotProductF32(v, kin.a, kin.a_base, kin.a_stride, kin.k, kin.b)
              IN  r.fault = "none" /\ r.result = kst.result

C10_Witness ==
    /\ KernelDone
    /\ kin.variant = "aarch64"
    /\ kin.k = 17
    /\ kin.a_stride = 2
    /\ kst.result # 0

====
